---- MODULE Spec2Model ----
(***************************************************************************)
(* The quiver-arrow driver for Qpid Proton C++                             *)
(* (impls/quiver-arrow-qpid-proton-cpp.cpp) as a state machine.            *)
(*                                                                         *)
(* The handler struct's fields are the program state.  The protocol engine *)
(* (the proton container) is the environment: it dispatches one callback   *)
(* at a time, each of which runs to completion.  Engine-side facts the     *)
(* handler only observes (which connections opened, which links exist, the *)
(* credit of each sender link, the scheduled timer) are variables too.     *)
(***************************************************************************)
EXTENDS Integers, Sequences, FiniteSets, TLC

----------------------------------------------------------------------------
(* Bounds of the model *)

MaxMessages == 2
MaxSeconds == 1
MaxConns == 2
MaxWindow == 1
MaxClock == 1

\* the peer grants at most this much credit in total: more than any
\* configured count needs
CreditCap == MaxMessages + 1
\* the peer delivers at most this many messages in total: one more than any
\* configured count expects
MaxDeliveries == MaxMessages + 1

Conns == 1..MaxConns

----------------------------------------------------------------------------
VARIABLES
    \* configuration, set by main from argv, immutable afterwards
    connection_mode, channel_mode, operation, seconds, messages, credit_window,
    ndebug,         \* whether the build defines NDEBUG: "unknown" until an
                    \* assert with a false condition shows it, then
                    \* "defined" or "undefined"
    \* handler fields
    connection,     \* the connection handle; NullConn when empty
    listener,       \* "none", "active" or "stopped"
    start_time, sent, received, accepted,
    \* the process
    status,         \* "init", "running", "failed", "aborted", "exited"
    exitCode,       \* -1 while the process runs
    out,            \* the lines written to standard output
    err,            \* the diagnostics eprint wrote to standard error
    \* the engine
    timer,          \* "none", "scheduled" or "fired"
    opened,         \* connections for which on_connection_open ran
    openCalls,      \* per connection, the number of connection::open calls
                    \* the handler made
    links,          \* per connection, the link it carries
    peerConn,       \* the connection the peer runs the benchmark on;
                    \* NullConn until it uses one (the others are probes)
    credit,         \* the credit of the sender link on peerConn
    granted,        \* total credit the peer has granted
    delivered,      \* total deliveries the engine has dispatched
    wire,           \* the messages submitted with sender::send
    closeCalls,     \* per connection, the number of connection::close calls
    listenerStops,  \* the number of listener::stop calls
    stopCalls,      \* the number of invocations of handler::stop
    broken,         \* connections whose transport failed
    clock           \* the wall clock read by now()

cfgvars == <<connection_mode, channel_mode, operation, seconds, messages,
             credit_window>>
counters == <<sent, received, accepted>>
vars == <<connection_mode, channel_mode, operation, seconds, messages,
          credit_window, ndebug, connection, listener, start_time, sent,
          received, accepted, status, exitCode, out, err, timer, opened,
          openCalls, links, peerConn, credit, granted, delivered, wire,
          closeCalls, listenerStops, stopCalls, broken, clock>>

NullConn == 0
NoLink == [kind |-> "none", window |-> 0, by |-> "none"]

ConnectionModes == {"client", "server"}
ChannelModes == {"active", "passive"}
Operations == {"send", "receive"}

ValidConfig ==
    /\ connection_mode \in ConnectionModes
    /\ channel_mode \in ChannelModes
    /\ operation \in Operations

----------------------------------------------------------------------------
(* Pure helpers *)

\* std::to_string of a non-negative int: its decimal digits, most
\* significant first
RECURSIVE to_string(_)
to_string(n) ==
    IF n < 10 THEN <<n>> ELSE Append(to_string(n \div 10), n % 10)

\* the report line "id,stime\n" of on_sendable, as its fields
SentLine(id, stime) == <<id, stime>>

\* a slip: the two times are written in the other order
ReceivedLineSwapped(id, stime, rtime) == <<id, rtime, stime>>

\* the report line "id,stime,rtime\n" of on_message, as its fields
ReceivedLine(id, stime, rtime) == <<id, stime, rtime>>

IsSentLine(l) == Len(l) = 2
IsReceivedLine(l) == Len(l) = 3

RECURSIVE CountLines(_, _)
CountLines(o, n) ==
    IF o = <<>> THEN 0
    ELSE (IF Len(Head(o)) = n THEN 1 ELSE 0) + CountLines(Tail(o), n)

SentLines == CountLines(out, 2)
ReceivedLines == CountLines(out, 3)

----------------------------------------------------------------------------
(* Initial states: main has filled in the handler, the container has not   *)
(* started yet.                                                            *)

InitState ==
    /\ connection = NullConn
    /\ listener = "none"
    /\ start_time = 0
    /\ sent = 0
    /\ received = 0
    /\ accepted = 0
    /\ status = "init"
    /\ exitCode = -1
    /\ out = <<>>
    /\ err = <<>>
    /\ timer = "none"
    /\ opened = {}
    /\ openCalls = [c \in Conns |-> 0]
    /\ links = [c \in Conns |-> NoLink]
    /\ peerConn = NullConn
    /\ credit = 0
    /\ granted = 0
    /\ delivered = 0
    /\ wire = <<>>
    /\ closeCalls = [c \in Conns |-> 0]
    /\ listenerStops = 0
    /\ stopCalls = 0
    /\ broken = {}
    /\ clock = 0

InitNumbers ==
    /\ seconds \in {0, MaxSeconds}
    /\ messages \in 0..MaxMessages
    /\ credit_window = MaxWindow
    /\ ndebug = "unknown"

\* every configuration whose three mode strings are recognized
Init ==
    /\ connection_mode \in ConnectionModes
    /\ channel_mode \in ChannelModes
    /\ operation \in Operations
    /\ InitNumbers
    /\ InitState

\* main copies argv[1..3] unchecked: any string may arrive
InitAny ==
    /\ connection_mode \in ConnectionModes \cup {"bogus"}
    /\ channel_mode \in ChannelModes \cup {"bogus"}
    /\ operation \in Operations \cup {"bogus"}
    /\ InitNumbers
    /\ InitState

----------------------------------------------------------------------------
(* How a run ends abnormally *)

\* an exception leaves container::run; main catches it, prints one
\* diagnostic and returns 1
Throw(what) ==
    /\ status' = "failed"
    /\ err' = Append(err, what)
    /\ exitCode' = 1

\* a failed assert() calls abort(): SIGABRT, no diagnostic from eprint
Abort ==
    /\ status' = "aborted"
    /\ exitCode' = 134
    /\ err' = err

KeepsRunning == UNCHANGED <<status, exitCode, err>>

----------------------------------------------------------------------------
(* handler::stop *)

StopHoldsConnection == connection # NullConn

\* a slip: the role test is inverted
StopIsClient == connection_mode = "client"

StopIsServer == connection_mode = "server"

stop ==
    /\ stopCalls' = stopCalls + 1
    /\ closeCalls' = IF StopHoldsConnection
                     THEN [closeCalls EXCEPT ![connection] = @ + 1]
                     ELSE closeCalls
    /\ IF StopIsServer
       THEN listener' = "stopped" /\ listenerStops' = listenerStops + 1
       ELSE UNCHANGED <<listener, listenerStops>>

NoStop == UNCHANGED <<stopCalls, closeCalls, listener, listenerStops>>

----------------------------------------------------------------------------
(* handler::on_container_start *)

IsClient == connection_mode = "client"
IsServer == connection_mode = "server"

\* the duration timer is scheduled only for a positive duration
SchedulesTimer == seconds > 0

\* the handle container::connect returns: the client's only connection
ClientConn == 1

Start ==
    /\ status = "init"
    /\ IF IsClient
       THEN /\ connection' = ClientConn
            /\ listener' = listener
            /\ start_time' = clock
            /\ timer' = IF SchedulesTimer THEN "scheduled" ELSE "none"
            /\ status' = "running"
            /\ UNCHANGED <<exitCode, err>>
       ELSE IF IsServer
       THEN /\ listener' = "active"
            /\ connection' = connection
            /\ start_time' = clock
            /\ timer' = IF SchedulesTimer THEN "scheduled" ELSE "none"
            /\ status' = "running"
            /\ UNCHANGED <<exitCode, err>>
       ELSE /\ Throw("std::exception")
            /\ UNCHANGED <<connection, listener, start_time, timer>>
    /\ UNCHANGED <<cfgvars, ndebug, counters, out, opened,
                   openCalls, links, peerConn,
                   credit, granted, delivered, wire, closeCalls,
                   listenerStops, stopCalls, broken, clock>>

----------------------------------------------------------------------------
(* handler::on_connection_open *)

\* a slip: the channel mode is not consulted
IsActiveAlways == TRUE

IsActive == channel_mode = "active"

SenderLink == [kind |-> "sender", window |-> 0, by |-> "driver"]
ReceiverLink == [kind |-> "receiver", window |-> credit_window, by |-> "driver"]

\* the connections the engine has had an event for
Known == opened \cup broken

\* an inbound connection the listener accepts now; inbound connections are
\* numbered in the order in which the engine first reports them
IsNextInbound(c) == listener = "active" /\ c = Cardinality(Known) + 1

\* the connections the engine can report as opened: the one the client
\* initiated, or the next inbound connection
CanOpen(c) ==
    /\ c \notin Known
    /\ IF IsClient THEN c = connection ELSE IsNextInbound(c)

ConnectionOpen(c) ==
    /\ status = "running"
    /\ CanOpen(c)
    /\ IF IsActive
       THEN IF operation = "send"
            THEN /\ links' = [links EXCEPT ![c] = SenderLink]
                 /\ opened' = opened \cup {c}
                 /\ KeepsRunning
            ELSE IF operation = "receive"
            THEN /\ links' = [links EXCEPT ![c] = ReceiverLink]
                 /\ opened' = opened \cup {c}
                 /\ KeepsRunning
            ELSE /\ Throw("std::exception")
                 /\ UNCHANGED <<links, opened, openCalls>>
       ELSE /\ KeepsRunning
            /\ opened' = opened \cup {c}
            /\ links' = links
    /\ connection' = IF IsActive THEN connection ELSE c
    /\ openCalls' = IF IsActive THEN openCalls
                    ELSE [openCalls EXCEPT ![c] = @ + 1]
    /\ UNCHANGED <<cfgvars, ndebug, counters, listener, start_time, out,
                   timer, peerConn, credit, granted, delivered, wire,
                   closeCalls, listenerStops, stopCalls, broken, clock>>

----------------------------------------------------------------------------
(* The remote peer.  One connection carries its benchmark run: the only one *)
(* on which it opens a link, grants credit or delivers.  Any other          *)
(* connection is a probe: it opens and stays idle, or it fails first.       *)

\* connection c is, or can become, the connection the peer runs on
PeerCanUse(c) ==
    /\ c \in opened
    /\ c \notin broken
    /\ peerConn \in {NullConn, c}

\* handler::on_receiver_open: accept with the configured credit window
ReceiverOpen(c) ==
    /\ status = "running"
    /\ PeerCanUse(c)
    /\ links[c] = NoLink
    /\ links' = [links EXCEPT ![c] = [kind |-> "receiver",
                                      window |-> credit_window,
                                      by |-> "peer"]]
    /\ peerConn' = c
    /\ UNCHANGED <<cfgvars, ndebug, counters, connection, listener,
                   start_time, status, exitCode, out, err, timer, opened,
                   openCalls,
                   credit, granted, delivered, wire, closeCalls,
                   listenerStops, stopCalls, broken, clock>>

\* on_sender_open is not overridden: the engine accepts the link itself
SenderOpen(c) ==
    /\ status = "running"
    /\ PeerCanUse(c)
    /\ links[c] = NoLink
    /\ links' = [links EXCEPT ![c] =
                    [kind |-> "sender", window |-> 0, by |-> "peer"]]
    /\ peerConn' = c
    /\ UNCHANGED <<cfgvars, ndebug, counters, connection, listener,
                   start_time, status, exitCode, out, err, timer, opened,
                   openCalls,
                   credit, granted, delivered, wire, closeCalls,
                   listenerStops, stopCalls, broken, clock>>

\* the peer grants one more credit to the sender link of connection c; a
\* larger grant is several of these before the next on_sendable
GrantCredit(c) ==
    /\ status = "running"
    /\ PeerCanUse(c)
    /\ links[c].kind = "sender"
    /\ granted < CreditCap
    /\ peerConn' = c
    /\ credit' = credit + 1
    /\ granted' = granted + 1
    /\ UNCHANGED <<cfgvars, ndebug, counters, connection, listener,
                   start_time, status, exitCode, out, err, timer, opened,
                   openCalls,
                   links, delivered, wire, closeCalls, listenerStops,
                   stopCalls, broken, clock>>

----------------------------------------------------------------------------
(* handler::on_sendable *)

\* a slip: the loop runs once more after the count is reached
SendLoopCondOffByOne(cr, snt) == cr > 0 /\ snt <= messages

\* a slip: the loop does not look at the credit
SendLoopCondNoCredit(cr, snt) == snt < messages

\* the condition of the while loop
SendLoopCond(cr, snt) == cr > 0 /\ snt < messages

\* a slip: identifiers start at 0
NextIdZeroBased(snt) == to_string(snt)

\* the identifier of the message sent when snt messages were sent before
NextId(snt) == to_string(snt + 1)

\* the while loop: one iteration builds a message, submits it, counts it and
\* writes its report line
RECURSIVE SendLoop(_, _, _, _)
SendLoop(cr, snt, o, w) ==
    IF SendLoopCond(cr, snt)
    THEN LET id == NextId(snt)
             stime == clock
             m == [id |-> id, SendTime |-> stime]
         IN  SendLoop(cr - 1, snt + 1, Append(o, SentLine(id, stime)),
                      Append(w, m))
    ELSE [credit |-> cr, sent |-> snt, out |-> o, wire |-> w]

\* assert(cond).  A build without NDEBUG aborts when cond is false; a build
\* with NDEBUG compiles the assert out.  Which build runs shows only at the
\* first assert whose condition is false: the choice is made there and kept.
AssertAborts(cond) ==
    /\ ~cond
    /\ ndebug # "defined"
    /\ ndebug' = "undefined"

AssertPasses(cond) ==
    \/ cond /\ ndebug' = ndebug
    \/ ~cond /\ ndebug # "undefined" /\ ndebug' = "defined"

\* s.credit() for the sender link of connection c: only the peer's
\* connection is ever granted any
CreditOf(c) == IF c = peerConn THEN credit ELSE 0

\* The engine dispatches the callback for a sender link; s.credit() is the
\* credit of that link (0 included: the loop then does nothing).
OnSendable(c) ==
    /\ status = "running"
    /\ links[c].kind = "sender"
    /\ c \notin broken
    /\ \/ /\ AssertAborts(operation = "send")
          /\ Abort
          /\ UNCHANGED <<sent, out, wire, credit>>
       \/ /\ AssertPasses(operation = "send")
          /\ LET r == SendLoop(CreditOf(c), sent, out, wire)
             IN  /\ sent' = r.sent
                 /\ out' = r.out
                 /\ wire' = r.wire
                 /\ credit' = IF c = peerConn THEN r.credit ELSE credit
          /\ KeepsRunning
    /\ UNCHANGED <<cfgvars, peerConn, received, accepted, connection,
                   listener, start_time, timer, opened,
                   openCalls, links, granted,
                   delivered, closeCalls, listenerStops, stopCalls, broken,
                   clock>>

----------------------------------------------------------------------------
(* handler::on_tracker_accept *)

\* a slip: completion is looked for one accept too late
AcceptCompletesLate(acc) == acc = messages + 1

AcceptCompletes(acc) == acc = messages

\* The engine confirms acceptance once per message that was sent.
OnTrackerAccept ==
    /\ status = "running"
    /\ accepted < sent
    /\ accepted' = accepted + 1
    /\ IF AcceptCompletes(accepted + 1) THEN stop ELSE NoStop
    /\ UNCHANGED <<cfgvars, ndebug, sent, received, connection, start_time,
                   status, exitCode, out, err, timer, opened,
                   openCalls, links, peerConn,
                   credit, granted, delivered, wire, broken, clock>>

----------------------------------------------------------------------------
(* handler::on_message *)

\* a slip: the early return is missing
AlreadyReceivedAllNever == FALSE

\* the early return: the configured count was already received
AlreadyReceivedAll == received = messages

\* a slip: the count is compared as it was before the increment
ReceiveCompletesStale(rcv) == rcv - 1 = messages

ReceiveCompletes(rcv) == rcv = messages

\* The engine dispatches a delivery on a receiver link.  The message is the
\* peer's: its identifier numbers the deliveries, its SendTime is a time
\* not after now.
OnMessage(c, stime) ==
    /\ status = "running"
    /\ PeerCanUse(c)
    /\ links[c].kind = "receiver"
    /\ delivered < MaxDeliveries
    /\ peerConn' = c
    /\ stime \in {0, clock}
    /\ delivered' = delivered + 1
    /\ \/ /\ AssertAborts(operation = "receive")
          /\ Abort
          /\ UNCHANGED <<received, out>>
          /\ NoStop
       \/ /\ AssertPasses(operation = "receive")
          /\ KeepsRunning
          /\ IF AlreadyReceivedAll
             THEN /\ UNCHANGED <<received, out>>
                  /\ NoStop
             ELSE LET id == to_string(delivered + 1)
                      rtime == clock
                  IN  /\ received' = received + 1
                      /\ out' = Append(out, ReceivedLine(id, stime, rtime))
                      /\ IF ReceiveCompletes(received + 1) THEN stop ELSE NoStop
    /\ UNCHANGED <<cfgvars, sent, accepted, connection, start_time, timer,
                   opened,
                   openCalls, links, credit, granted, wire, broken, clock>>

----------------------------------------------------------------------------
(* The duration timer scheduled by on_container_start: its action is stop *)

TimerFires ==
    /\ status = "running"
    /\ timer = "scheduled"
    /\ timer' = "fired"
    /\ stop
    /\ UNCHANGED <<cfgvars, ndebug, counters, connection, start_time, status,
                   exitCode, out, err, opened,
                   openCalls, links, peerConn, credit,
                   granted, delivered, wire, broken, clock>>

----------------------------------------------------------------------------
(* handler::on_transport_error *)

\* a slip: no role is exempt
TransportErrorAlwaysFatal == TRUE

\* a slip: the test is inverted
TransportErrorFatalOnServer == connection_mode = "server"

\* on_error is called unless the process is a server; the inherited
\* on_error throws, which ends the run in main's catch
TransportErrorIsFatal == connection_mode # "server"

\* the connections whose transport fails: the one the client initiated, at
\* any time, or on a server a dummy inbound connection, which fails before
\* it opens
CanBreak(c) ==
    /\ c \notin broken
    /\ IF IsClient THEN c = connection ELSE IsNextInbound(c)

\* The engine reports that the transport of connection c failed; nothing
\* more happens on that connection.
OnTransportError(c) ==
    /\ status = "running"
    /\ CanBreak(c)
    /\ broken' = broken \cup {c}
    /\ IF TransportErrorIsFatal THEN Throw("transport error") ELSE KeepsRunning
    /\ UNCHANGED <<cfgvars, ndebug, counters, connection, listener,
                   start_time, out, timer, opened,
                   openCalls, links, peerConn, credit,
                   granted, delivered, wire, closeCalls, listenerStops,
                   stopCalls, clock>>

----------------------------------------------------------------------------
(* main: container::run returns and the process exits with code 0 *)

\* the connections the engine holds
EngineConns == IF IsClient THEN {ClientConn} ELSE opened \ broken

\* the container has nothing left to run: no listener accepts and a close
\* was requested on every connection
NothingLeft ==
    /\ listener # "active"
    /\ \A c \in EngineConns : closeCalls[c] > 0

RunReturns ==
    /\ status = "running"
    /\ NothingLeft
    /\ status' = "exited"
    /\ exitCode' = 0
    /\ UNCHANGED <<cfgvars, ndebug, counters, connection, listener,
                   start_time, out, err, timer, opened,
                   openCalls, links, peerConn,
                   credit, granted, delivered, wire, closeCalls,
                   listenerStops, stopCalls, broken, clock>>

\* the wall clock advances
Tick ==
    /\ status = "running"
    /\ clock < MaxClock
    /\ clock' = clock + 1
    /\ UNCHANGED <<cfgvars, ndebug, counters, connection, listener,
                   start_time, status, exitCode, out, err, timer, opened,
                   openCalls,
                   links, peerConn, credit, granted, delivered, wire,
                   closeCalls, listenerStops, stopCalls, broken>>

----------------------------------------------------------------------------
(* Two drivers over one link: a sending driver and a receiving driver, both *)
(* started, with the link between them attached.  Of the sending driver the *)
(* state holds sent, credit and wire; of the receiving driver received,     *)
(* delivered and its calls of stop; the fields a driver never touches are   *)
(* not kept twice.  out is both standard outputs in the order the lines     *)
(* were written, and now() reads one clock.  Each driver is configured with *)
(* the operation it performs, so both asserts pass.                         *)

PairInit ==
    /\ connection_mode = "client"
    /\ channel_mode = "active"
    /\ operation = "send"
    /\ seconds = 0
    /\ messages \in 0..MaxMessages
    /\ credit_window = MaxWindow
    /\ ndebug = "unknown"
    /\ connection = ClientConn
    /\ listener = "none"
    /\ start_time = 0
    /\ sent = 0
    /\ received = 0
    /\ accepted = 0
    /\ status = "running"
    /\ exitCode = -1
    /\ out = <<>>
    /\ err = <<>>
    /\ timer = "none"
    /\ opened = {ClientConn}
    /\ openCalls = [c \in Conns |-> 0]
    /\ links = [c \in Conns |-> IF c = ClientConn THEN SenderLink ELSE NoLink]
    /\ peerConn = ClientConn
    /\ credit = 0
    /\ granted = 0
    /\ delivered = 0
    /\ wire = <<>>
    /\ closeCalls = [c \in Conns |-> 0]
    /\ listenerStops = 0
    /\ stopCalls = 0
    /\ broken = {}
    /\ clock = 0

\* the receiving driver's link, opened with credit_window, issues credit to
\* the sending driver's link
PairGrant ==
    /\ granted < CreditCap
    /\ credit' = credit + 1
    /\ granted' = granted + 1
    /\ UNCHANGED <<cfgvars, ndebug, counters, connection, listener,
                   start_time, status, exitCode, out, err, timer, opened,
                   openCalls,
                   links, peerConn, delivered, wire, closeCalls,
                   listenerStops, stopCalls, broken, clock>>

\* on_sendable of the sending driver
PairSendable ==
    /\ LET r == SendLoop(credit, sent, out, wire)
       IN  /\ sent' = r.sent
           /\ out' = r.out
           /\ wire' = r.wire
           /\ credit' = r.credit
    /\ UNCHANGED <<cfgvars, ndebug, received, accepted, connection, listener,
                   start_time, status, exitCode, err, timer, opened,
                   openCalls, links,
                   peerConn, granted, delivered, closeCalls, listenerStops,
                   stopCalls, broken, clock>>

\* on_message of the receiving driver: the link hands over, in the order of
\* sending, the next message the sending driver submitted
PairMessage ==
    /\ delivered < Len(wire)
    /\ delivered' = delivered + 1
    /\ LET m == wire[delivered + 1]
       IN  IF AlreadyReceivedAll
           THEN /\ UNCHANGED <<received, out>>
                /\ NoStop
           ELSE LET id == m.id
                    stime == m.SendTime
                    rtime == clock
                IN  /\ received' = received + 1
                    /\ out' = Append(out, ReceivedLine(id, stime, rtime))
                    /\ IF ReceiveCompletes(received + 1) THEN stop ELSE NoStop
    /\ UNCHANGED <<cfgvars, ndebug, sent, accepted, connection, start_time,
                   status, exitCode, err, timer, opened,
                   openCalls, links, peerConn,
                   credit, granted, wire, broken, clock>>

PairNext ==
    \/ PairGrant
    \/ PairSendable
    \/ PairMessage
    \/ Tick

----------------------------------------------------------------------------
(* Specifications *)

Next ==
    \/ Start
    \/ \E c \in Conns : ConnectionOpen(c)
    \/ \E c \in Conns : ReceiverOpen(c)
    \/ \E c \in Conns : SenderOpen(c)
    \/ \E c \in Conns : GrantCredit(c)
    \/ \E c \in Conns : OnSendable(c)
    \/ OnTrackerAccept
    \/ \E c \in Conns : \E t \in 0..MaxClock : OnMessage(c, t)
    \/ TimerFires
    \/ \E c \in Conns : OnTransportError(c)
    \/ RunReturns
    \/ Tick

\* runs of every configuration with recognized mode strings
Spec == Init /\ [][Next]_vars

\* runs of every configuration, recognized or not
AnySpec == InitAny /\ [][Next]_vars

\* The engine dispatches every event that stays pending, the timer fires,
\* and the peer cooperates: it connects, opens its link, grants credit,
\* accepts and delivers.  Transport errors and the clock are not forced.
Fairness ==
    /\ WF_vars(Start)
    /\ WF_vars(\E c \in Conns : ConnectionOpen(c))
    /\ WF_vars(\E c \in Conns : ReceiverOpen(c) \/ SenderOpen(c))
    /\ WF_vars(\E c \in Conns : GrantCredit(c))
    /\ WF_vars(\E c \in Conns : OnSendable(c))
    /\ WF_vars(OnTrackerAccept)
    /\ WF_vars(\E c \in Conns : \E t \in 0..MaxClock : OnMessage(c, t))
    /\ WF_vars(TimerFires)
    /\ WF_vars(RunReturns)

FairSpec == Init /\ [][Next]_vars /\ Fairness

\* runs of a sending and a receiving driver over one link
PairSpec == PairInit /\ [][PairNext]_vars

----------------------------------------------------------------------------
(* Properties *)

\* the value a string of decimal digits denotes
RECURSIVE DecimalValue(_)
DecimalValue(d) ==
    IF d = <<>> THEN 0
    ELSE 10 * DecimalValue(SubSeq(d, 1, Len(d) - 1)) + d[Len(d)]

\* the report lines of the sender, in the order written
SentReport == SelectSeq(out, IsSentLine)

Ended == status \in {"failed", "aborted", "exited"}

\* C1: the number of sent report lines equals sent and never exceeds
\* messages (nor does the number of submitted messages); once sent equals
\* messages no step, a further on_sendable with credit included, sends a
\* message, writes a sent line or changes sent.
C1_SentBounded ==
    /\ [](SentLines = sent /\ Len(wire) = sent /\ sent <= messages)
    /\ [][sent = messages =>
            sent' = sent /\ wire' = wire /\ SentLines' = SentLines]_vars

\* all messages are sent and the sender link still has credit: on_sendable
\* is dispatched here with credit > 0
C1_Witness ==
    /\ status = "running"
    /\ messages >= 1
    /\ sent = messages
    /\ peerConn # NullConn
    /\ links[peerConn].kind = "sender"
    /\ credit > 0

\* C2: the number of received report lines equals received and never
\* exceeds messages, and a delivery dispatched when received equals messages
\* is ignored: no counter changes, no line is written, stop is not invoked
\* and the run goes on.
C2_LateDeliveryIgnored ==
    /\ [](ReceivedLines = received /\ received <= messages)
    /\ [][delivered' = delivered + 1 /\ received = messages =>
            /\ UNCHANGED <<sent, received, accepted, out, stopCalls>>
            /\ status' = "running"]_vars

\* C3: over a run, connection::close is called at most once on a connection,
\* however often stop is invoked.
C3_CloseRequestedOnce == \A c \in Conns : closeCalls[c] <= 1

\* C4: the n-th sent report line and the n-th submitted message carry the
\* identifier whose decimal value is n.
C4_SentIdsSequential ==
    /\ \A n \in 1..Len(SentReport) : DecimalValue(SentReport[n][1]) = n
    /\ \A n \in 1..Len(wire) : DecimalValue(wire[n].id) = n

\* two sent lines with different send times: they were written by two
\* invocations of on_sendable
C4_Witness ==
    /\ Len(SentReport) >= 2
    /\ SentReport[1][2] < SentReport[2][2]

\* C5: in a send run with messages >= 1, the accept that brings accepted to
\* messages invokes stop, and that invocation calls close on the connection
\* that carries the sender link the messages went out on.
C5_LastAcceptClosesConnection ==
    [][operation = "send" /\ messages >= 1 /\ accepted' = accepted + 1
          /\ accepted' = messages =>
            /\ stopCalls' = stopCalls + 1
            /\ peerConn # NullConn
            /\ closeCalls'[peerConn] = closeCalls[peerConn] + 1]_vars

\* C6: with seconds > 0 the timer eventually fires, and the invocation of
\* stop it makes requests the close of a connection when one is open.
C6_TimerFiresAndCloses ==
    /\ (seconds > 0) ~> (timer = "fired")
    /\ [][timer = "scheduled" /\ timer' = "fired" /\ opened # {} =>
            \E c \in Conns : closeCalls'[c] = closeCalls[c] + 1]_vars

\* C7: in server mode the step that handles a transport error leaves the
\* counters, the connection handle, the listener and both output streams
\* unchanged and the run running; a server never ends in the failed state.
C7_ServerSuppresses ==
    /\ [](IsServer => status # "failed" /\ err = <<>>)
    /\ [][IsServer /\ broken' # broken =>
            /\ UNCHANGED <<sent, received, accepted, connection, listener, out,
                           err, exitCode, stopCalls, closeCalls, listenerStops>>
            /\ status' = "running"]_vars

\* a server whose first inbound connection failed before it opened still
\* listens and has handled messages since
C7_Witness ==
    /\ IsServer
    /\ 1 \in broken
    /\ 1 \notin opened
    /\ listener = "active"
    /\ Len(out) > 0

\* C8: in client mode the step that handles a transport error ends the run
\* failed, with exit code 1 and exactly one diagnostic, and writes no report
\* line; nothing happens after a failure.
C8_ClientFatal ==
    /\ [](status = "failed" => exitCode = 1 /\ Len(err) = 1)
    /\ [][IsClient /\ broken' # broken =>
            /\ status' = "failed"
            /\ exitCode' = 1
            /\ Len(err') = 1
            /\ out' = out]_vars
    /\ [][status = "failed" => UNCHANGED <<out, err, exitCode, status>>]_vars

\* a client run that failed on a transport error after it had sent
C8_Witness ==
    /\ IsClient
    /\ status = "failed"
    /\ broken # {}
    /\ sent > 0

\* C9: with an unrecognized connection mode, channel mode or operation the
\* run sends, receives and reports nothing, and it ends only failed, with
\* exit code 1 and one diagnostic; an unrecognized connection mode fails
\* on_container_start and an unrecognized channel mode fails the first
\* on_connection_open, the callbacks that consult them.
C9_InvalidEnumIsFatal ==
    ~ValidConfig =>
        /\ sent = 0
        /\ received = 0
        /\ out = <<>>
        /\ wire = <<>>
        /\ status \in {"init", "running", "failed"}
        /\ (status = "failed" => exitCode = 1 /\ Len(err) = 1)
        /\ (connection_mode \notin ConnectionModes => status # "running")
        /\ (channel_mode \notin ChannelModes => opened = {})

\* the peer stopped cooperating: the connection it ran on failed, or every
\* connection the model has failed before the peer used one
PeerLost ==
    \/ peerConn \in broken
    \/ peerConn = NullConn /\ Conns \subseteq Known /\ opened \subseteq broken

RunOver == stopCalls > 0 \/ status \in {"failed", "aborted"} \/ PeerLost

\* C10 as claimed: for every valid configuration, messages = 0 and
\* seconds = 0 included, stop is eventually invoked or the run aborts.
C10_EveryRunEnds == <>RunOver

\* C10 as amended: for every valid configuration with messages >= 1 or
\* seconds > 0, stop is eventually invoked or the run aborts.
C10_RunEndsWhenBounded == (messages >= 1 \/ seconds > 0) ~> RunOver

\* a run without timer that completed its count of accepted messages
C10_Witness ==
    /\ seconds = 0
    /\ messages >= 1
    /\ accepted = messages
    /\ stopCalls = 1

\* C11: with a sending and a receiving driver over one link and one
\* non-decreasing clock, every received report line has a send time not
\* after its receive time and agrees in identifier and send time with exactly
\* one sent report line written before it.
C11_RoundTripCorrelates ==
    \A i \in 1..Len(out) :
        IsReceivedLine(out[i]) =>
            /\ out[i][2] <= out[i][3]
            /\ Cardinality({j \in 1..(i - 1) :
                               /\ IsSentLine(out[j])
                               /\ out[j][1] = out[i][1]
                               /\ out[j][2] = out[i][2]}) = 1

\* two messages sent at different times, the second received later than it
\* was sent
C11_Witness ==
    /\ SentLines = 2
    /\ ReceivedLines = 2
    /\ \E i \in 1..Len(out) :
          /\ IsReceivedLine(out[i])
          /\ DecimalValue(out[i][1]) = 2
          /\ out[i][2] < out[i][3]

\* C12: in a receive run with messages >= 1, the on_message that brings
\* received to messages invokes stop in the same step, whatever accepted is
\* and without changing it; no other on_message invokes stop, and received
\* never decreases, so the receive path invokes stop exactly once.
C12_LastDeliveryStopsOnce ==
    /\ [][operation = "receive" /\ messages >= 1
            /\ delivered' = delivered + 1 =>
              /\ accepted' = accepted
              /\ status' = "running"
              /\ IF received = messages - 1
                 THEN received' = messages /\ stopCalls' = stopCalls + 1
                 ELSE stopCalls' = stopCalls]_vars
    /\ [][received' >= received]_vars
    /\ [](operation = "receive" /\ received = messages /\ messages >= 1
            => stopCalls >= 1)

\* a receive run that completed its count with nothing accepted, stopped
\* once, and had a further delivery dispatched afterwards
C12_Witness ==
    /\ operation = "receive"
    /\ messages >= 1
    /\ received = messages
    /\ delivered > messages
    /\ accepted = 0
    /\ timer # "fired"
    /\ stopCalls = 1

Min(a, b) == IF a <= b THEN a ELSE b

\* C13: a step that sends, sends exactly min(credit, messages - sent)
\* messages and uses one credit for each; no step sends when the credit is 0;
\* and the messages sent never outnumber the credit the peer granted.
C13_SendingRespectsCredit ==
    /\ [][sent' # sent =>
            /\ sent' - sent = Min(credit, messages - sent)
            /\ credit' = credit - (sent' - sent)
            /\ Len(wire') = Len(wire) + (sent' - sent)]_vars
    /\ [][credit = 0 => sent' = sent /\ wire' = wire]_vars
    /\ [](credit >= 0 /\ sent + credit = granted /\ sent <= granted)

\* on_sendable ran with less credit than messages left to send: it used up
\* the credit and stopped short of the count
C13_Witness ==
    /\ sent >= 1
    /\ sent < messages
    /\ credit = 0
    /\ granted = sent

\* C14: the step that handles a connection-open event for connection c,
\* in active mode, opens on c one link, a sender when operation is send and
\* a receiver with credit_window when it is receive, and neither touches the
\* handle nor calls open; in passive mode it opens no link, stores c in the
\* handle and calls open on it once.  Links of the driver exist only in
\* active mode, on opened connections.
C14_ConnectionOpenByMode ==
    /\ [][opened' # opened =>
            \E c \in Conns \ opened :
                /\ opened' = opened \cup {c}
                /\ status' = "running"
                /\ IF channel_mode = "active"
                   THEN /\ links' = [links EXCEPT ![c] =
                              IF operation = "send"
                              THEN [kind |-> "sender", window |-> 0,
                                    by |-> "driver"]
                              ELSE [kind |-> "receiver",
                                    window |-> credit_window,
                                    by |-> "driver"]]
                        /\ connection' = connection
                        /\ openCalls' = openCalls
                   ELSE /\ links' = links
                        /\ connection' = c
                        /\ openCalls' = [openCalls EXCEPT ![c] = @ + 1]]_vars
    /\ [](\A c \in Conns :
            links[c].by = "driver" => channel_mode = "active" /\ c \in opened)

\* a passive run whose connection opened: the handle holds it, open was
\* called on it once and the driver opened no link on it
C14_Witness ==
    /\ channel_mode = "passive"
    /\ connection # NullConn
    /\ connection \in opened
    /\ openCalls[connection] = 1
    /\ links[connection] = NoLink

\* the links the driver opened itself
DriverLinks == {c \in Conns : links[c].by = "driver"}

\* C15: over a run at most one connection is established and the driver
\* opens at most one link itself.
C15_OneConnectionOneLink ==
    /\ Cardinality(opened) <= 1
    /\ Cardinality(DriverLinks) <= 1

\* C16: a step that invokes stop, in server mode leaves the listener stopped
\* with one more listener::stop call, and in client mode leaves the listener
\* as it was; sent does not change, and accepted, received and the report
\* change only by what the calling callback did before it called stop (the
\* timer's step changes none of them).  Once the listener is stopped it
\* stays stopped and a server gets no further connection.
C16_StopStopsListener ==
    /\ [][stopCalls' # stopCalls =>
            /\ stopCalls' = stopCalls + 1
            /\ IF connection_mode = "server"
               THEN listener' = "stopped" /\ listenerStops' = listenerStops + 1
               ELSE listener' = listener /\ listenerStops' = listenerStops
            /\ sent' = sent
            /\ SentLines' = SentLines
            /\ IF timer' # timer
               THEN UNCHANGED <<received, accepted, out>>
               ELSE /\ received' + accepted' = received + accepted + 1
                    /\ Len(out') = Len(out) + (received' - received)]_vars
    /\ [][listener = "stopped" =>
            listener' = "stopped" /\ opened' = opened /\ broken' = broken]_vars
    /\ [](connection_mode = "client" => listener = "none" /\ listenerStops = 0)

\* a server on which stop ran twice, by the count and by the timer, with one
\* connection accepted before and none after
C16_Witness ==
    /\ connection_mode = "server"
    /\ stopCalls = 2
    /\ listenerStops = 2
    /\ listener = "stopped"
    /\ timer = "fired"
    /\ opened = {1}

\* C17: always 0 <= accepted <= sent <= messages and
\* 0 <= received <= messages, and no step decreases sent, received or
\* accepted.
C17_CountersBoundedMonotone ==
    /\ [](/\ 0 <= accepted /\ accepted <= sent /\ sent <= messages
          /\ 0 <= received /\ received <= messages)
    /\ [][sent' >= sent /\ received' >= received /\ accepted' >= accepted]_vars

\* every message was sent and some, not all, were accepted
C17_Witness ==
    /\ sent = messages
    /\ accepted >= 1
    /\ accepted < sent

\* C18: once stop has been invoked, no on_sendable and no on_message sends
\* a message, changes sent or received, or writes a report line.
C18_StopCancelsRun ==
    [][stopCalls > 0 => UNCHANGED <<sent, received, out, wire>>]_vars

\* C19: no assert of the handler is ever evaluated with a false condition:
\* on_sendable runs only when operation is send and on_message only when it
\* is receive, so no run aborts.
C19_AssertionsHold == ndebug = "unknown" /\ status # "aborted"

\* the connections that opened and on which the peer runs nothing
Probes == opened \ {peerConn}

\* C20: on a passive server, a connection that opens changes no counter,
\* and when stop runs with a probe connection present and the peer's link
\* in the direction of operation, close is called on the connection that
\* carries the link and on no other.
C20_ProbesDoNotDisturb ==
    /\ [][IsServer /\ opened' # opened => UNCHANGED counters /\ out' = out]_vars
    /\ [][/\ IsServer
          /\ channel_mode = "passive"
          /\ stopCalls' # stopCalls
          /\ peerConn' # NullConn
          /\ links'[peerConn'].kind =
                (IF operation = "send" THEN "sender" ELSE "receiver")
          /\ Probes' # {}
          => closeCalls' = [closeCalls EXCEPT ![peerConn'] = @ + 1]]_vars

====
